---------------------------- MODULE Spec2Model ----------------------------
(***************************************************************************)
(* A model of pyjoomatic/admin.py: the selenium-based driver of the Joomla *)
(* administrator.  The browser, the page it shows and the file system are  *)
(* the environment: every call draws what the page holds from small sets.  *)
(*                                                                         *)
(* Python strings are sequences of one-character strings, so that          *)
(* formatting, quoting and parsing are computed character by character.    *)
(***************************************************************************)
EXTENDS Integers, Sequences, FiniteSets, TLC

VARIABLES
    op,      \* the operation called last ("none" before any call)
    args,    \* its arguments and what the page held when it was called
    result,  \* how it ended: [kind |-> "return" | "raise" | "running", exc, value]
    log,     \* the browser interactions the call performed, in order
    frame,   \* the frame the selenium session is switched to
    pc       \* position inside select_article_in_popup ("idle" outside it)

vars == <<op, args, result, log, frame, pc>>

(***************************************************************************)
(* Bounds of the model.                                                    *)
(***************************************************************************)
MaxParams == 2    \* parameters in the query of an input URL
MaxKw == 2        \* keyword arguments given to update_url_params
MaxMatches == 2   \* elements a selector matches
MaxFields == 2    \* fields sharing one name (a radio group)
MaxResults == 2   \* entries of a chosen widget's filtered result list

(***************************************************************************)
(* Strings.                                                                *)
(***************************************************************************)
\* Index of the first occurrence of character c in s, 0 when absent.
RECURSIVE IndexFrom(_, _, _)
IndexFrom(s, c, i) ==
    IF i > Len(s) THEN 0
    ELSE IF s[i] = c THEN i
    ELSE IndexFrom(s, c, i + 1)

Find(s, c) == IndexFrom(s, c, 1)

Contains(s, c) == Find(s, c) # 0

\* First index of s holding one of the characters of cs, 0 when none does.
RECURSIVE FindAny(_, _, _)
FindAny(s, cs, i) ==
    IF i > Len(s) THEN 0
    ELSE IF s[i] \in cs THEN i
    ELSE FindAny(s, cs, i + 1)

\* str.split(sep): the pieces of s between occurrences of character sep.
RECURSIVE Split(_, _)
Split(s, sep) ==
    LET i == Find(s, sep)
    IN IF i = 0 THEN <<s>>
       ELSE <<SubSeq(s, 1, i - 1)>> \o Split(SubSeq(s, i + 1, Len(s)), sep)

\* str.join
RECURSIVE Join(_, _)
Join(ss, sep) ==
    IF ss = <<>> THEN <<>>
    ELSE IF Len(ss) = 1 THEN ss[1]
    ELSE ss[1] \o sep \o Join(Tail(ss), sep)

RECURSIVE Replace(_, _, _)
Replace(s, c, d) ==
    IF s = <<>> THEN <<>>
    ELSE <<IF Head(s) = c THEN d ELSE Head(s)>> \o Replace(Tail(s), c, d)

\* The characters urllib leaves unquoted: letters, digits and "_.-~".
SafeChars ==
    {"a", "d", "f", "h", "i", "p", "t", "x", "y", "N", "e", "n", "o", "l", "u", "v",
     "0", "1", "2", "3", "_", ".", "-", "~"}

\* The percent-encoding of the other characters the model meets.
HexOf ==
    [c \in {"[", "]", "'", "\"", ",", "\\", "=", "&", "%", "+", "?", "#", "/", ":"} |->
        CASE c = "[" -> <<"5", "B">>
          [] c = "]" -> <<"5", "D">>
          [] c = "'" -> <<"2", "7">>
          [] c = "\"" -> <<"2", "2">>
          [] c = "," -> <<"2", "C">>
          [] c = "\\" -> <<"5", "C">>
          [] c = "=" -> <<"3", "D">>
          [] c = "&" -> <<"2", "6">>
          [] c = "%" -> <<"2", "5">>
          [] c = "+" -> <<"2", "B">>
          [] c = "?" -> <<"3", "F">>
          [] c = "#" -> <<"2", "3">>
          [] c = "/" -> <<"2", "F">>
          [] c = ":" -> <<"3", "A">>]

\* urllib.parse.quote_plus: safe characters kept, a space becomes "+", the
\* rest is percent-encoded.
RECURSIVE quote_plus(_)
quote_plus(s) ==
    IF s = <<>> THEN <<>>
    ELSE LET c == Head(s)
         IN (IF c \in SafeChars THEN <<c>>
             ELSE IF c = " " THEN <<"+">>
             ELSE <<"%">> \o HexOf[c]) \o quote_plus(Tail(s))

\* urllib.parse.unquote: %XX decoded, a malformed escape left as it is.
RECURSIVE unquote(_)
unquote(s) ==
    IF s = <<>> THEN <<>>
    ELSE IF Head(s) = "%" /\ Len(s) >= 3
            /\ \E c \in DOMAIN HexOf : HexOf[c] = SubSeq(s, 2, 3)
         THEN <<CHOOSE c \in DOMAIN HexOf : HexOf[c] = SubSeq(s, 2, 3)>>
              \o unquote(SubSeq(s, 4, Len(s)))
         ELSE <<Head(s)>> \o unquote(Tail(s))

\* repr of a str: single quotes, unless the string holds a single quote and
\* no double quote; backslashes, and the quote in use, are escaped.
RECURSIVE EscapeFor(_, _)
EscapeFor(s, q) ==
    IF s = <<>> THEN <<>>
    ELSE (IF Head(s) = "\\" \/ Head(s) = q THEN <<"\\", Head(s)>> ELSE <<Head(s)>>)
         \o EscapeFor(Tail(s), q)

repr(s) ==
    LET q == IF Contains(s, "'") /\ ~Contains(s, "\"") THEN "\"" ELSE "'"
    IN <<q>> \o EscapeFor(s, q) \o <<q>>

\* Python values that get printed: a string or number (by its text), a list
\* of strings, None.
Scalar(s) == [t |-> "scalar", s |-> s, l |-> <<>>]

List(l) == [t |-> "list", s |-> <<>>, l |-> l]

NoneValue == [t |-> "none", s |-> <<>>, l |-> <<>>]

\* str(v): a string prints as itself, a list as "['1', '2']", None as "None".
str(v) ==
    CASE v.t = "list" ->
            <<"[">> \o Join([i \in 1..Len(v.l) |-> repr(v.l[i])], <<",", " ">>) \o <<"]">>
      [] v.t = "none" -> <<"N", "o", "n", "e">>
      [] OTHER -> v.s


(***************************************************************************)
(* Dictionaries keep insertion order: a sequence of [k, v] with distinct   *)
(* keys.                                                                   *)
(***************************************************************************)
HasKey(d, k) == \E i \in 1..Len(d) : d[i].k = k

Get(d, k) == d[CHOOSE i \in 1..Len(d) : d[i].k = k].v

\* d[k] = v: an existing key keeps its place, a new key goes last.
Put(d, k, v) ==
    IF HasKey(d, k)
    THEN [i \in 1..Len(d) |-> IF d[i].k = k THEN [k |-> k, v |-> v] ELSE d[i]]
    ELSE Append(d, [k |-> k, v |-> v])

\* dict.update(other)
RECURSIVE Update(_, _)
Update(d, other) ==
    IF other = <<>> THEN d
    ELSE Update(Put(d, Head(other).k, Head(other).v), Tail(other))

(***************************************************************************)
(* urllib.parse, as update_url_params uses it.                             *)
(***************************************************************************)
\* parse_qsl: the pieces between "&"; an empty piece, a piece without "=" and
\* a piece with a blank value are skipped (keep_blank_values is off); "+" is
\* a space and %XX is decoded in names and values.
RECURSIVE parse_qsl(_)
parse_qsl(pieces) ==
    IF pieces = <<>> THEN <<>>
    ELSE LET nv == Head(pieces)
             i == Find(nv, "=")
             name == unquote(Replace(SubSeq(nv, 1, i - 1), "+", " "))
             value == unquote(Replace(SubSeq(nv, i + 1, Len(nv)), "+", " "))
         IN (IF nv = <<>> \/ i = 0 \/ i = Len(nv)
             THEN <<>>
             ELSE <<[k |-> name, v |-> value]>>) \o parse_qsl(Tail(pieces))

\* parse_qs: every name with the list of its values, in order.
RECURSIVE CollectQs(_, _)
CollectQs(pairs, d) ==
    IF pairs = <<>> THEN d
    ELSE LET p == Head(pairs)
             old == IF HasKey(d, p.k) THEN Get(d, p.k).l ELSE <<>>
         IN CollectQs(Tail(pairs), Put(d, p.k, List(Append(old, p.v))))

parse_qs(qs) == CollectQs(parse_qsl(Split(qs, "&")), <<>>)

\* urlencode(query) with doseq left off: each value goes through str().
urlencode(params) ==
    Join([i \in 1..Len(params) |->
            quote_plus(params[i].k) \o <<"=">> \o quote_plus(str(params[i].v))],
         <<"&">>)

\* urlparse: scheme before the first ":", netloc after "//" up to the first of
\* "/?#", fragment after the first "#", query after the first "?".  The
\* model's URLs hold no ";", so the path parameters are always empty.
\* Each step takes what the steps before it split off.
SplitQuery(scheme, netloc, rest, fragment, q) ==
    [scheme |-> scheme, netloc |-> netloc,
     path |-> IF q = 0 THEN rest ELSE SubSeq(rest, 1, q - 1),
     params |-> <<>>,
     query |-> IF q = 0 THEN <<>> ELSE SubSeq(rest, q + 1, Len(rest)),
     fragment |-> fragment]

SplitFragment(scheme, netloc, rest, h) ==
    IF h = 0
    THEN SplitQuery(scheme, netloc, rest, <<>>, Find(rest, "?"))
    ELSE SplitQuery(scheme, netloc, SubSeq(rest, 1, h - 1),
                    SubSeq(rest, h + 1, Len(rest)), Find(SubSeq(rest, 1, h - 1), "?"))

SplitNetloc(scheme, rest, e) ==
    IF Len(rest) >= 2 /\ SubSeq(rest, 1, 2) = <<"/", "/">>
    THEN IF e = 0
         THEN SplitFragment(scheme, SubSeq(rest, 3, Len(rest)), <<>>, 0)
         ELSE SplitFragment(scheme, SubSeq(rest, 3, e - 1), SubSeq(rest, e, Len(rest)),
                            Find(SubSeq(rest, e, Len(rest)), "#"))
    ELSE SplitFragment(scheme, <<>>, rest, Find(rest, "#"))

SplitScheme(url, c) ==
    IF c > 1 /\ FindAny(SubSeq(url, 1, c - 1), {"/", "?", "#"}, 1) = 0
    THEN SplitNetloc(SubSeq(url, 1, c - 1), SubSeq(url, c + 1, Len(url)),
                     FindAny(SubSeq(url, c + 1, Len(url)), {"/", "?", "#"}, 3))
    ELSE SplitNetloc(<<>>, url, FindAny(url, {"/", "?", "#"}, 3))

urlparse(url) == SplitScheme(url, Find(url, ":"))

\* urlunparse: the six elements put back together; an empty query or
\* fragment gets no delimiter.
urlunparse(e) ==
    LET p1 == IF e.params # <<>> THEN e.path \o <<";">> \o e.params ELSE e.path
        p2 == IF e.netloc # <<>>
              THEN <<"/", "/">> \o e.netloc
                   \o (IF p1 # <<>> /\ Head(p1) # "/" THEN <<"/">> ELSE <<>>) \o p1
              ELSE p1
        p3 == IF e.scheme # <<>> THEN e.scheme \o <<":">> \o p2 ELSE p2
        p4 == IF e.query # <<>> THEN p3 \o <<"?">> \o e.query ELSE p3
    IN IF e.fragment # <<>> THEN p4 \o <<"#">> \o e.fragment ELSE p4

\* update_url_params(url, **kwargs); kwargs is a dictionary of scalars.
update_url_params(url, kwargs) ==
    LET parsed_url == urlparse(url)
        params == Update(parse_qs(parsed_url.query), kwargs)
    IN urlunparse([parsed_url EXCEPT !.query = urlencode(params)])

(***************************************************************************)
(* The URLs and keyword arguments the calls are drawn from.                *)
(***************************************************************************)
Keys == {<<"i", "d">>, <<"a">>}
QueryValues == {<<"1">>, <<"2">>, <<>>}
KwValues == {<<"1">>, <<"2">>}
Bases == {<<"h", "t", "t", "p", ":", "/", "/", "x", "/", "y">>, <<"/", "y">>}
Fragments == {<<>>, <<"f">>}

SeqsUpTo(S, n) == UNION {[1..m -> S] : m \in 0..n}

QueryStrings ==
    {Join([i \in 1..Len(ps) |-> ps[i][1] \o <<"=">> \o ps[i][2]], <<"&">>) :
        ps \in SeqsUpTo(Keys \X QueryValues, MaxParams)}

Urls ==
    {b \o (IF q = <<>> THEN <<>> ELSE <<"?">> \o q)
       \o (IF f = <<>> THEN <<>> ELSE <<"#">> \o f) :
        b \in Bases, q \in QueryStrings, f \in Fragments}

Kwargs ==
    {kw \in SeqsUpTo([k : Keys, v : {Scalar(s) : s \in KwValues}], MaxKw) :
        \A i, j \in 1..Len(kw) : i # j => kw[i].k # kw[j].k}

None == [kind |-> "return", exc |-> "none", value |-> <<"None", 0>>]

Return(v) == [kind |-> "return", exc |-> "none", value |-> v]

Raise(e) == [kind |-> "raise", exc |-> e, value |-> <<"None", 0>>]

(***************************************************************************)
(* EltWrapper: the selector lookups.  What a lookup gives is <<"elt", i>>   *)
(* (the i-th matching element, wrapped), <<"list", n>> (a list of the n     *)
(* matching elements, wrapped) or the caller's default.                    *)
(***************************************************************************)
marker == <<"marker", 0>>

\* selenium's find_element_by_*: the first match, NoSuchElementException
\* when nothing matches.
find_element(matches) ==
    IF matches = 0 THEN Raise("NoSuchElementException") ELSE Return(<<"elt", 1>>)

\* selenium's find_elements_by_*: the list of matches, empty when nothing
\* matches; it never raises NoSuchElementException.
find_elements(matches) == Return(<<"list", matches>>)

\* The decorator: r is how the decorated function ended.
no_such_element_default(r, default) ==
    IF r.kind = "raise" /\ r.exc = "NoSuchElementException"
    THEN IF default # marker THEN Return(default) ELSE r
    ELSE r

by_tag(matches, default) == no_such_element_default(find_element(matches), default)

all_tag(matches, default) == no_such_element_default(find_elements(matches), default)

by_name(matches, default) == no_such_element_default(find_element(matches), default)

all_name(matches, default) == no_such_element_default(find_elements(matches), default)

by_css(matches, default) == no_such_element_default(find_element(matches), default)

all_css(matches, default) == no_such_element_default(find_elements(matches), default)

by_xpath(matches, default) == no_such_element_default(find_element(matches), default)

all_xpath(matches, default) == no_such_element_default(find_elements(matches), default)

by_id(matches, default) == no_such_element_default(find_element(matches), default)

Lookups ==
    {"by_tag", "all_tag", "by_name", "all_name", "by_css", "all_css",
     "by_xpath", "all_xpath", "by_id"}

CallLookup(m, matches, default) ==
    CASE m = "by_tag" -> by_tag(matches, default)
      [] m = "all_tag" -> all_tag(matches, default)
      [] m = "by_name" -> by_name(matches, default)
      [] m = "all_name" -> all_name(matches, default)
      [] m = "by_css" -> by_css(matches, default)
      [] m = "all_css" -> all_css(matches, default)
      [] m = "by_xpath" -> by_xpath(matches, default)
      [] m = "all_xpath" -> all_xpath(matches, default)
      [] m = "by_id" -> by_id(matches, default)

\* The defaults a caller passes: none, an object of its own, an empty list.
Defaults == {marker, <<"default", 1>>, <<"list", 0>>}

(***************************************************************************)
(* JoomlaFormDriver.  A filler gives [log, exc]: the browser interactions  *)
(* it performed, in order, and the exception that ended it ("none" when    *)
(* it returned).                                                           *)
(*                                                                         *)
(* A field is [id, tag_name, type, value, displayed]; type is <<>> when    *)
(* the element has no type attribute.  The page of a fill_field call is    *)
(*   fields    the elements all_name finds for the field's name, in order  *)
(*   tab       the tab of a hidden field: "none" (no tab pane, or no       *)
(*             selector for it), "hidden" (its selector is not displayed)  *)
(*             or "visible"                                                *)
(*   revealed  whether a click on the tab selector makes the field         *)
(*             displayed                                                   *)
(*   options   the values of a select's options                            *)
(*   chzn      whether the page holds the select's chosen widget           *)
(*   results   the entries of the widget's result list once the option's   *)
(*             text is typed into its search box                           *)
(*   path      what the file system holds at the upload path               *)
(***************************************************************************)
Entry(o, kind, id, arg) == [op |-> o, kind |-> kind, id |-> id, arg |-> arg]

Ok(l) == [log |-> l, exc |-> "none"]

Fail(l, e) == [log |-> l, exc |-> e]

\* e1 and then, unless e1 raised, e2.
Then(e1, e2) ==
    IF e1.exc # "none" THEN e1 ELSE [log |-> e1.log \o e2.log, exc |-> e2.exc]

TypeAttr == <<"t", "y", "p", "e">>
ValueAttr == <<"v", "a", "l", "u", "e">>
TextType == <<"t", "e", "x", "t">>
FileType == <<"f", "i", "l", "e">>
RadioType == <<"r", "a", "d", "i", "o">>

\* WebElement.get_attribute(name): None for an attribute the element lacks.
get_attribute(field, name) ==
    IF name = TypeAttr
    THEN IF field.type = <<>> THEN NoneValue ELSE Scalar(field.type)
    ELSE IF name = ValueAttr THEN Scalar(field.value)
    ELSE NoneValue

\* ensure_field_tab: the tab selector of a field that is not displayed is
\* clicked when it is found and is itself displayed; a lookup that fails on
\* the way is swallowed.
ensure_field_tab(field, page, shown) ==
    IF ~shown /\ page.tab = "visible"
    THEN Ok(<<Entry("click", "tab", 0, <<>>)>>)
    ELSE Ok(<<>>)

\* field.is_displayed() once ensure_field_tab has run.
ShownAfterTab(page, shown) == shown \/ (page.tab = "visible" /\ page.revealed)

fill_input_text(fname, field, value) ==
    Ok(<<Entry("clear", "field", field.id, <<>>),
         Entry("send_keys", "field", field.id, value)>>)

\* os.path.abspath, the working directory being "/".
abspath(value) == IF value # <<>> /\ Head(value) = "/" THEN value ELSE <<"/">> \o value

\* fill_input_file typing the path before it is verified.
fill_input_file_unverified(fname, field, value, page) ==
    LET typed == <<Entry("clear", "field", field.id, <<>>),
                   Entry("send_keys", "field", field.id, abspath(value))>>
    IN IF page.path # "file" THEN Fail(typed, "ValueError") ELSE Ok(typed)

fill_input_file(fname, field, value, page) ==
    LET cleared == <<Entry("clear", "field", field.id, <<>>)>>
        fpath == abspath(value)
    IN IF page.path = "missing" THEN Fail(cleared, "ValueError")
       ELSE IF page.path # "file" THEN Fail(cleared, "ValueError")
       ELSE Ok(Append(cleared, Entry("send_keys", "field", field.id, fpath)))

fill_input_radio(fname, field, value) ==
    LET fvalue == get_attribute(field, value)
    IN IF str(fvalue) = str(Scalar(value))
       THEN Ok(<<Entry("click", "field", field.id, <<>>)>>)
       ELSE Ok(<<>>)

\* fill_input: the filler named after the type attribute ("text" when the
\* element has none), fill_input_text when there is no such filler.
fill_input(fname, field, value, page) ==
    LET a == get_attribute(field, TypeAttr)
        ftype == IF a.t = "none" \/ a.s = <<>> THEN TextType ELSE a.s
    IN CASE ftype = FileType -> fill_input_file(fname, field, value, page)
         [] ftype = RadioType -> fill_input_radio(fname, field, value)
         [] OTHER -> fill_input_text(fname, field, value)

\* The display text of the option holding value v.
OptionText(v) == <<"T">> \o v

\* fill_select looking the option up with a default, and doing nothing
\* when there is none.
fill_select_lenient(fname, field, value, page, shown) ==
    IF value \notin page.options
    THEN Ok(<<>>)
    ELSE IF shown
    THEN Ok(<<Entry("click", "option", field.id, value)>>)
    ELSE IF ~page.chzn
    THEN Fail(<<>>, "NoSuchElementException")
    ELSE LET typed == <<Entry("click", "chzn_a", field.id, <<>>),
                        Entry("send_keys", "chzn_input", field.id, OptionText(value))>>
         IN IF page.results # 1
            THEN Fail(typed, "AssertionError")
            ELSE Ok(Append(typed, Entry("click", "chzn_result", 1, <<>>)))

\* fill_select asserting only that the result list is not empty.
fill_select_first_result(fname, field, value, page, shown) ==
    IF value \notin page.options
    THEN Fail(<<>>, "NoSuchElementException")
    ELSE IF shown
    THEN Ok(<<Entry("click", "option", field.id, value)>>)
    ELSE IF ~page.chzn
    THEN Fail(<<>>, "NoSuchElementException")
    ELSE LET typed == <<Entry("click", "chzn_a", field.id, <<>>),
                        Entry("send_keys", "chzn_input", field.id, OptionText(value))>>
         IN IF page.results < 1
            THEN Fail(typed, "AssertionError")
            ELSE Ok(Append(typed, Entry("click", "chzn_result", 1, <<>>)))

fill_select(fname, field, value, page, shown) ==
    IF value \notin page.options
    THEN Fail(<<>>, "NoSuchElementException")
    ELSE IF shown
    THEN Ok(<<Entry("click", "option", field.id, value)>>)
    ELSE IF ~page.chzn
    THEN Fail(<<>>, "NoSuchElementException")
    ELSE LET typed == <<Entry("click", "chzn_a", field.id, <<>>),
                        Entry("send_keys", "chzn_input", field.id, OptionText(value))>>
         IN IF page.results # 1
            THEN Fail(typed, "AssertionError")
            ELSE Ok(Append(typed, Entry("click", "chzn_result", 1, <<>>)))

\* getattr(self, "fill_" + field.tag_name) and the call of what it gives.
fill_tag(fname, field, value, page, shown) ==
    CASE field.tag_name = "input" -> fill_input(fname, field, value, page)
      [] field.tag_name = "select" -> fill_select(fname, field, value, page, shown)
      [] OTHER -> Fail(<<>>, "AttributeError")

\* The loop of fill_field, n passes left: every pass takes fields[0].
RECURSIVE fill_field_loop(_, _, _, _, _, _)
fill_field_loop(n, name, value, page, shown, done) ==
    IF n = 0 \/ done.exc # "none" THEN done
    ELSE LET field == page.fields[1]
             tabbed == ensure_field_tab(field, page, shown)
             now == IF tabbed.log # <<>> THEN ShownAfterTab(page, shown) ELSE shown
             filled == fill_tag(name, field, value, page, now)
         IN fill_field_loop(n - 1, name, value, page, now,
                            Then(done, Then(tabbed, filled)))

\* fill_field(name, value): page.fields is what all_name gives for the name.
fill_field(name, value, page) ==
    fill_field_loop(Len(page.fields), name, value, page,
                    page.fields # <<>> /\ page.fields[1].displayed, Ok(<<>>))

(***************************************************************************)
(* The pages and values fill_field is called with.                         *)
(***************************************************************************)
Values == {<<"0">>, <<"1">>, ValueAttr, <<"N", "o", "n", "e">>}
OptionValues == {<<"0">>, <<"1">>}

Field(i, tag, type, value, displayed) ==
    [id |-> i, tag_name |-> tag, type |-> type, value |-> value, displayed |-> displayed]

\* What a hidden field's tab can be; a displayed field needs none.
TabCases(displayed) ==
    IF displayed THEN {[tab |-> "none", revealed |-> FALSE]}
    ELSE {[tab |-> "none", revealed |-> FALSE], [tab |-> "hidden", revealed |-> FALSE],
          [tab |-> "visible", revealed |-> FALSE], [tab |-> "visible", revealed |-> TRUE]}

Page(fields, t, options, chzn, results, path) ==
    [fields |-> fields, tab |-> t.tab, revealed |-> t.revealed, options |-> options,
     chzn |-> chzn, results |-> results, path |-> path]

\* A group of radio buttons sharing one name, their values all different.
RadioGroups(d) ==
    {[i \in 1..Len(vs) |-> Field(i, "input", RadioType, vs[i], d)] :
        vs \in {s \in SeqsUpTo(Values, MaxFields) :
                    Len(s) >= 1 /\ \A i, j \in 1..Len(s) : i # j => s[i] # s[j]}}

RadioPages ==
    UNION {{Page(g, t, {}, FALSE, 0, "missing") : g \in RadioGroups(d), t \in TabCases(d)} :
                d \in BOOLEAN}

TextPages ==
    {Page(<<Field(1, tag, type, <<>>, TRUE)>>, [tab |-> "none", revealed |-> FALSE],
          {}, FALSE, 0, "missing") :
        tag \in {"input", "span"}, type \in {<<>>, TextType, <<"e">>}}

FilePages ==
    UNION {{Page(<<Field(1, "input", FileType, <<>>, d)>>, t, {}, FALSE, 0, path) :
                t \in TabCases(d), path \in {"missing", "dir", "file"}} : d \in BOOLEAN}

SelectPages ==
    UNION {{Page(<<Field(1, "select", <<>>, <<>>, d)>>, t, options, chzn, results, "missing") :
                t \in TabCases(d), options \in SUBSET OptionValues, chzn \in BOOLEAN,
                results \in 0..MaxResults} : d \in BOOLEAN}

NoFieldPage == Page(<<>>, [tab |-> "none", revealed |-> FALSE], {}, FALSE, 0, "missing")

Pages == RadioPages \cup TextPages \cup FilePages \cup SelectPages \cup {NoFieldPage}

(***************************************************************************)
(* JoomlaAdminParts and JoomlaAdminDriver.  The page of a workflow call is *)
(*   missing      the landmark the admin pages lack ("none": all there)    *)
(*   banners      the .alert-error elements shown once the form is saved   *)
(*   current_url  the URL the browser is at once the form is saved         *)
(*   edit_url     the href of the article list's 'article.edit' link       *)
(* and each entry of fields is [name, value, page], page being the page    *)
(* fill_field finds for that name.  No field is an association.            *)
(***************************************************************************)
Landmarks ==
    {"menu_contents", "menu_article", "article.add", "article.apply", "article.cancel",
     "article.save", "article.edit"}

\* A landmark looked up (by_xpath or by_css, no default) and clicked.
ClickLandmark(env, name) ==
    IF env.missing = name
    THEN Fail(<<>>, "NoSuchElementException")
    ELSE Ok(<<Entry("click", name, 0, <<>>)>>)

open_articles(env) ==
    Then(ClickLandmark(env, "menu_contents"), ClickLandmark(env, "menu_article"))

\* The text of the error banner.
BannerText == <<"e", "n", "o">>

\* JoomlaAdminParts.jform_error: by_css(".alert-error", default=[]).
jform_error(env) == by_css(env.banners, <<"list", 0>>)

\* bool(v): an empty list is false; an EltWrapper defines neither __bool__
\* nor __len__, so it is true.
Truthy(v) == ~(v[1] = "list" /\ v[2] = 0)

\* v[i]: an item of a list; an EltWrapper defines no __getitem__.
GetItem(v, i) ==
    IF v[1] = "list"
    THEN IF i < v[2] THEN Return(<<"elt", i + 1>>) ELSE Raise("IndexError")
    ELSE Raise("TypeError")

\* What selenium's WebElement and WebDriver offer.
WebElementAttrs ==
    {"click", "clear", "send_keys", "get_attribute", "is_displayed", "text", "tag_name"}

WebDriverAttrs == {"get", "current_url", "switch_to", "implicitly_wait"}

\* What EltWrapper and Browser define themselves.
BrowserOwnAttrs ==
    Lookups \cup {"elt", "base_url", "abs_url", "wait"}

\* EltWrapper.__getattr__ on a wrapped element: the element's attribute.
EltHasAttr(name) == name \in (Lookups \cup {"elt"}) \cup WebElementAttrs

\* Attribute access on the Browser: its own attributes, then __getattr__
\* onto the wrapped WebDriver.
BrowserHasAttr(name) == name \in BrowserOwnAttrs \cup WebDriverAttrs

\* The statement raise AdminError(self.jap.jform_error[0].textContent): the
\* exception that leaves it, and the text it carries.
raise_admin_error(env) ==
    LET item == GetItem(jform_error(env).value, 0)
    IN IF item.kind = "raise" THEN [exc |-> item.exc, value |-> <<>>]
       ELSE IF ~EltHasAttr("textContent") THEN [exc |-> "AttributeError", value |-> <<>>]
       ELSE [exc |-> "AdminError", value |-> BannerText]

\* The loop over fields.items().
RECURSIVE fill_fields(_)
fill_fields(fields) ==
    IF fields = <<>> THEN Ok(<<>>)
    ELSE Then(fill_field(Head(fields).name, Head(fields).value, Head(fields).page),
              fill_fields(Tail(fields)))

IdKey == <<"i", "d">>

Outcome(e, value) ==
    [log |-> e.log, result |-> IF e.exc = "none" THEN Return(value) ELSE Raise(e.exc)]

Raising(e, err) ==
    [log |-> e.log, result |-> [kind |-> "raise", exc |-> err.exc, value |-> err.value]]

\* parse_qs(urlparse(current_url).query)
url_params(current_url) == parse_qs(urlparse(current_url).query)

\* add_article once 'article.apply' is clicked; saved is the call so far.
add_article_saved(saved, env) ==
    IF saved.exc # "none" THEN Outcome(saved, <<>>)
    ELSE IF Truthy(jform_error(env).value) THEN Raising(saved, raise_admin_error(env))
    ELSE IF ~HasKey(url_params(env.current_url), IdKey)
    THEN Outcome(Fail(saved.log, "KeyError"), <<>>)
    ELSE Outcome(Then(saved, ClickLandmark(env, "article.cancel")),
                 Get(url_params(env.current_url), IdKey).l[1])

add_article(fields, env) ==
    add_article_saved(
        Then(Then(Then(open_articles(env), ClickLandmark(env, "article.add")),
                  fill_fields(fields)),
             ClickLandmark(env, "article.apply")),
        env)

\* The edit link's URL with its id changed.
edit_url(href, id) == update_url_params(href, <<[k |-> IdKey, v |-> Scalar(id)]>>)

\* self.b.jaction_link("article.edit").get_attribute("href"), the id changed
\* in it, and the browser sent there.
open_edit_form(id, env) ==
    IF ~BrowserHasAttr("jaction_link") THEN Fail(<<>>, "AttributeError")
    ELSE IF env.missing = "article.edit" THEN Fail(<<>>, "NoSuchElementException")
    ELSE Ok(<<Entry("get", "browser", 0, edit_url(env.edit_url, id))>>)

\* modify_article once 'article.save' is clicked; saved is the call so far.
modify_article_saved(saved, id, env) ==
    IF saved.exc # "none" THEN Outcome(saved, <<>>)
    ELSE IF Truthy(jform_error(env).value) THEN Raising(saved, raise_admin_error(env))
    ELSE Outcome(saved, id)

modify_article(id, fields, env) ==
    modify_article_saved(
        Then(Then(Then(open_articles(env), open_edit_form(id, env)), fill_fields(fields)),
             ClickLandmark(env, "article.save")),
        id, env)

(***************************************************************************)
(* The pages and fields the workflows are called with.                     *)
(***************************************************************************)
TextEntry ==
    [name |-> <<"t">>, value |-> <<"1">>,
     page |-> Page(<<Field(1, "input", TextType, <<>>, TRUE)>>,
                   [tab |-> "none", revealed |-> FALSE], {}, FALSE, 0, "missing")]

\* A select that lacks the option asked for.
BadSelectEntry ==
    [name |-> <<"s">>, value |-> <<"1">>,
     page |-> Page(<<Field(1, "select", <<>>, <<>>, TRUE)>>,
                   [tab |-> "none", revealed |-> FALSE], {<<"0">>}, FALSE, 0, "missing")]

FieldLists == {<<>>, <<TextEntry>>, <<BadSelectEntry>>, <<TextEntry, TextEntry>>}

SavedUrls ==
    {<<"h", "t", "t", "p", ":", "/", "/", "x", "/", "y", "?", "i", "d", "=", "3">>,
     <<"h", "t", "t", "p", ":", "/", "/", "x", "/", "y">>}

EditUrl ==
    <<"h", "t", "t", "p", ":", "/", "/", "x", "/", "y", "?", "i", "d", "=", "1">>

AdminEnvs ==
    [missing : {"none"} \cup Landmarks, banners : 0..MaxMatches,
     current_url : SavedUrls, edit_url : {EditUrl}]

Init ==
    /\ op = "none"
    /\ args = <<>>
    /\ result = None
    /\ log = <<>>
    /\ frame = "parent"
    /\ pc = "idle"

\* A call of update_url_params(url, **kwargs).
UpdateUrlParams ==
    /\ pc = "idle" /\ op = "none"
    /\ \E url \in Urls, kwargs \in Kwargs :
        /\ op' = "update_url_params"
        /\ args' = [url |-> url, kwargs |-> kwargs]
        /\ result' = Return(update_url_params(url, kwargs))
    /\ log' = <<>>
    /\ UNCHANGED <<frame, pc>>

\* A call of one of the selector lookups on a page where the selector
\* matches `matches` elements.
Lookup ==
    /\ pc = "idle" /\ op = "none"
    /\ \E m \in Lookups, matches \in 0..MaxMatches, default \in Defaults :
        /\ op' = m
        /\ args' = [matches |-> matches, default |-> default]
        /\ result' = CallLookup(m, matches, default)
    /\ log' = <<>>
    /\ UNCHANGED <<frame, pc>>

\* A call of fill_field(name, value) on one of the pages.
FillField ==
    /\ pc = "idle" /\ op = "none"
    /\ \E page \in Pages, value \in Values :
        LET done == fill_field(<<"n">>, value, page)
        IN /\ op' = "fill_field"
           /\ args' = [name |-> <<"n">>, value |-> value, page |-> page]
           /\ result' = IF done.exc = "none" THEN None ELSE Raise(done.exc)
           /\ log' = done.log
    /\ UNCHANGED <<frame, pc>>

\* A call of add_article(fields).
AddArticle ==
    /\ pc = "idle" /\ op = "none"
    /\ \E fields \in FieldLists, env \in AdminEnvs :
        LET done == add_article(fields, env)
        IN /\ op' = "add_article"
           /\ args' = [fields |-> fields, env |-> env]
           /\ result' = done.result
           /\ log' = done.log
    /\ UNCHANGED <<frame, pc>>

\* A call of modify_article(id, fields).
ModifyArticle ==
    /\ pc = "idle" /\ op = "none"
    /\ \E id \in KwValues, fields \in FieldLists, env \in AdminEnvs :
        LET done == modify_article(id, fields, env)
        IN /\ op' = "modify_article"
           /\ args' = [id |-> id, fields |-> fields, env |-> env]
           /\ result' = done.result
           /\ log' = done.log
    /\ UNCHANGED <<frame, pc>>

(***************************************************************************)
(* select_article_in_popup(article_id, article_title), step by step.  The  *)
(* page of the call is                                                     *)
(*   numeric          whether int(article_id) succeeds                     *)
(*   frame_available  whether the popup iframe shows up within the wait    *)
(*   link_present     whether the id's result link is in the popup         *)
(*   search_field     whether the popup holds the filter[search] field     *)
(*   search_button    whether a button follows that field                  *)
(*   link_appears     whether the link shows up once the title is searched *)
(*   popup_gone       whether the iframe is gone within the wait           *)
(***************************************************************************)
PopupEnvs ==
    [numeric : BOOLEAN, frame_available : BOOLEAN, link_present : BOOLEAN,
     search_field : BOOLEAN, search_button : BOOLEAN, link_appears : BOOLEAN,
     popup_gone : BOOLEAN]

Running == [kind |-> "running", exc |-> "none", value |-> <<"None", 0>>]

ArticleTitle == <<"t">>

\* The call ends with exception e; nothing is undone.
PopupRaises(e, done) ==
    /\ result' = Raise(e)
    /\ log' = done
    /\ pc' = "idle"
    /\ UNCHANGED <<op, args, frame>>

\* The call goes on at position p.
PopupGoes(p, done) ==
    /\ pc' = p
    /\ log' = done
    /\ UNCHANGED <<op, args, result, frame>>

\* The call of select_article_in_popup.
SelectArticleInPopup ==
    /\ pc = "idle" /\ op = "none"
    /\ \E env \in PopupEnvs :
        /\ op' = "select_article_in_popup"
        /\ args' = env
    /\ result' = Running
    /\ log' = <<>>
    /\ pc' = "wait_frame"
    /\ UNCHANGED frame

\* wait().until(frame_to_be_available_and_switch_to_it(popup_xpath))
PopupSwitchToFrame ==
    /\ pc = "wait_frame"
    /\ IF args.frame_available
       THEN /\ frame' = "popup"
            /\ pc' = "find_link"
            /\ log' = Append(log, Entry("switch_to_frame", "popup", 0, <<>>))
            /\ UNCHANGED <<op, args, result>>
       ELSE PopupRaises("TimeoutException", log)

\* link_xpath is formatted with int(article_id) and looked up.
PopupFindLink ==
    /\ pc = "find_link"
    /\ IF ~args.numeric THEN PopupRaises("ValueError", log)
       ELSE IF args.link_present
       THEN PopupGoes("click_link", Append(log, Entry("by_xpath", "link", 1, <<>>)))
       ELSE PopupGoes("search_title", Append(log, Entry("by_xpath", "link", 0, <<>>)))

\* The except block: the title is searched and the link awaited.
PopupSearchTitle ==
    /\ pc = "search_title"
    /\ LET typed == log \o <<Entry("clear", "search", 0, <<>>),
                             Entry("send_keys", "search", 0, ArticleTitle)>>
           clicked == Append(typed, Entry("click", "search_button", 0, <<>>))
       IN IF ~args.search_field THEN PopupRaises("NoSuchElementException", log)
          ELSE IF ~args.search_button THEN PopupRaises("NoSuchElementException", typed)
          ELSE IF ~args.link_appears THEN PopupRaises("TimeoutException", clicked)
          ELSE PopupGoes("click_link", Append(clicked, Entry("wait", "link", 0, <<>>)))

\* link.click()
PopupClickLink ==
    /\ pc = "click_link"
    /\ PopupGoes("wait_gone", Append(log, Entry("click", "link", 0, <<>>)))

\* The wait switching back to the parent frame when it times out.
PopupWaitGoneRestoring ==
    /\ pc = "wait_gone"
    /\ IF args.popup_gone
       THEN PopupGoes("parent_frame", Append(log, Entry("wait_gone", "popup", 0, <<>>)))
       ELSE /\ result' = Raise("TimeoutException")
            /\ frame' = "parent"
            /\ pc' = "idle"
            /\ UNCHANGED <<op, args, log>>

\* wait().until_not(presence_of_element_located(popup_xpath))
PopupWaitGone ==
    /\ pc = "wait_gone"
    /\ IF args.popup_gone
       THEN PopupGoes("parent_frame", Append(log, Entry("wait_gone", "popup", 0, <<>>)))
       ELSE PopupRaises("TimeoutException", log)

\* switch_to.parent_frame(), and the return.
PopupParentFrame ==
    /\ pc = "parent_frame"
    /\ frame' = "parent"
    /\ log' = Append(log, Entry("parent_frame", "popup", 0, <<>>))
    /\ result' = None
    /\ pc' = "idle"
    /\ UNCHANGED <<op, args>>

\* The caller takes the outcome and goes on to its next call; the selenium
\* session, and so the frame it is switched to, stays as the call left it.
CallerContinues ==
    /\ pc = "idle" /\ op # "none"
    /\ op' = "none"
    /\ args' = <<>>
    /\ result' = None
    /\ log' = <<>>
    /\ UNCHANGED <<frame, pc>>

Next ==
    \/ UpdateUrlParams
    \/ Lookup
    \/ FillField
    \/ AddArticle
    \/ ModifyArticle
    \/ SelectArticleInPopup
    \/ PopupSwitchToFrame
    \/ PopupFindLink
    \/ PopupSearchTitle
    \/ PopupClickLink
    \/ PopupWaitGone
    \/ PopupParentFrame
    \/ CallerContinues

Spec == Init /\ [][Next]_vars

(***************************************************************************)
(* The properties.                                                         *)
(***************************************************************************)
\* Whether the call's log holds an interaction o with something of kind k.
Logged(o, k) == \E i \in 1..Len(log) : log[i].op = o /\ log[i].kind = k

LoggedOn(o, k, id) ==
    \E i \in 1..Len(log) : log[i].op = o /\ log[i].kind = k /\ log[i].id = id

\* The call was fill_field on a page whose first field has this tag.
FillsTag(tag) ==
    /\ op = "fill_field"
    /\ args.page.fields # <<>>
    /\ args.page.fields[1].tag_name = tag

FillsInputOfType(type) == FillsTag("input") /\ args.page.fields[1].type = type

\* C1: add_article, when an .alert-error banner is present after the click on
\* 'article.apply', raises AdminError carrying the banner's text.
C1_AdminErrorRaised ==
    (op = "add_article" /\ Logged("click", "article.apply") /\ args.env.banners > 0)
        => (result.kind = "raise" /\ result.exc = "AdminError"
            /\ result.value = BannerText)

\* C2 as stated: fill_input_file with a nonexistent path raises before any
\* interaction with the field or the browser: nothing is logged.
C2_NoInteractionBeforeError ==
    (FillsInputOfType(FileType) /\ args.page.path = "missing")
        => (result.kind = "raise" /\ result.exc = "ValueError"
            /\ ~\E i \in 1..Len(log) : log[i].op \in {"clear", "send_keys", "click"})

\* C2 as amended: fill_input_file with a nonexistent path raises ValueError
\* once the field is cleared, and the clear is its only interaction with the
\* field: the path is never typed.
C2_OnlyClearBeforeError ==
    (FillsInputOfType(FileType) /\ args.page.path = "missing")
        => /\ result.kind = "raise" /\ result.exc = "ValueError"
           /\ SelectSeq(log, LAMBDA e : e.kind = "field")
                = <<Entry("clear", "field", 1, <<>>)>>
           /\ ~\E i \in 1..Len(log) : log[i].op = "send_keys"

C2_Witness ==
    /\ FillsInputOfType(FileType) /\ args.page.path = "missing"
    /\ result.exc = "ValueError"
    /\ Logged("clear", "field")

\* C3: every selector lookup called with a default returns exactly that
\* default when nothing matches.
C3_DefaultReturned ==
    (op \in Lookups /\ args.matches = 0 /\ args.default # marker)
        => result = Return(args.default)

\* C4: update_url_params applied again, with the same keywords, to its own
\* result gives that result.
C4_Idempotent ==
    op = "update_url_params"
        => update_url_params(result.value, args.kwargs) = result.value

\* The key/value set of a query dictionary.
Items(d) == {d[i] : i \in 1..Len(d)}

\* The keywords as parse_qs reads them back: each value a one-item list.
RECURSIVE AsLists(_)
AsLists(kwargs) ==
    IF kwargs = <<>> THEN <<>>
    ELSE <<[k |-> Head(kwargs).k, v |-> List(<<str(Head(kwargs).v)>>)]>>
         \o AsLists(Tail(kwargs))

\* C5: the result's query holds the original parameters with the keywords
\* overwritten or added, every other parameter unchanged, and its scheme,
\* host, path and fragment are the input's.
C5_ParamsMerged ==
    op = "update_url_params"
        => /\ urlparse(result.value).scheme = urlparse(args.url).scheme
           /\ urlparse(result.value).netloc = urlparse(args.url).netloc
           /\ urlparse(result.value).path = urlparse(args.url).path
           /\ urlparse(result.value).fragment = urlparse(args.url).fragment
           /\ Items(parse_qs(urlparse(result.value).query))
                = Items(Update(parse_qs(urlparse(args.url).query), AsLists(args.kwargs)))

\* C6: filling a select with a value none of its options holds ends with
\* NoSuchElementException, no option clicked and the chosen widget untouched.
C6_MissingOptionFails ==
    (FillsTag("select") /\ args.value \notin args.page.options)
        => /\ result = Raise("NoSuchElementException")
           /\ ~\E i \in 1..Len(log) :
                log[i].kind \in {"option", "chzn_a", "chzn_input", "chzn_result"}

C6_Witness ==
    /\ FillsTag("select")
    /\ args.page.options # {} /\ args.value \notin args.page.options
    /\ result.exc = "NoSuchElementException"

\* The select is not displayed when fill_select looks at it, its option and
\* its chosen widget are there: the widget's search box gets the text.
ChosenSearched ==
    /\ FillsTag("select")
    /\ args.value \in args.page.options
    /\ args.page.chzn
    /\ ~args.page.fields[1].displayed
    /\ ~(args.page.tab = "visible" /\ args.page.revealed)

\* C7: when the search text leaves more than one entry in the chosen widget's
\* result list the fill ends with AssertionError, and an entry of the list is
\* clicked only when the list holds exactly one.
C7_ChosenNeedsOneResult ==
    /\ (ChosenSearched /\ args.page.results > 1)
            => (result = Raise("AssertionError") /\ ~Logged("click", "chzn_result"))
    /\ (op = "fill_field" /\ Logged("click", "chzn_result")) => args.page.results = 1

C7_Witness ==
    /\ ChosenSearched /\ args.page.results > 1
    /\ Logged("send_keys", "chzn_input")
    /\ result.exc = "AssertionError"

\* C8: modify_article returns the id it was given whenever the pages hold
\* every landmark (the 'article.edit' link among them), every field fill
\* succeeds and no error banner is present after the save.
C8_ModifyReturnsId ==
    (/\ op = "modify_article"
     /\ args.env.missing = "none"
     /\ fill_fields(args.fields).exc = "none"
     /\ args.env.banners = 0)
        => result = Return(args.id)

\* C9: filling a group of several radio buttons clicks exactly the button
\* whose value attribute is the requested value.
C9_OnlyMatchingRadioClicked ==
    (FillsInputOfType(RadioType) /\ Len(args.page.fields) >= 2)
        => \A i \in 1..Len(args.page.fields) :
                LoggedOn("click", "field", i) <=> args.page.fields[i].value = args.value

\* The steps of select_article_in_popup, in order; the title search is there
\* when the lookup by id found nothing.
PopupSteps(found) ==
    <<<<"switch_to_frame", "popup">>, <<"by_xpath", "link">>>>
    \o (IF found THEN <<>>
        ELSE <<<<"clear", "search">>, <<"send_keys", "search">>,
               <<"click", "search_button">>, <<"wait", "link">>>>)
    \o <<<<"click", "link">>, <<"wait_gone", "popup">>, <<"parent_frame", "popup">>>>

IsPrefix(s, t) == Len(s) <= Len(t) /\ s = SubSeq(t, 1, Len(s))

\* C10: the steps of select_article_in_popup happen in the stated order, the
\* title search only after a lookup by id that found nothing; a call that
\* returns leaves the session in the parent frame, having gone through every
\* step; a call that fails after the switch into the iframe makes no switch
\* back and leaves the session in the popup frame.
C10_PopupOrder ==
    op = "select_article_in_popup"
        => LET found == LoggedOn("by_xpath", "link", 1)
               steps == [i \in 1..Len(log) |-> <<log[i].op, log[i].kind>>]
           IN /\ IsPrefix(steps, PopupSteps(found))
              /\ Logged("clear", "search") => LoggedOn("by_xpath", "link", 0)
              /\ result.kind = "return" => (frame = "parent" /\ steps = PopupSteps(found))
              /\ (result.kind = "raise" /\ Logged("switch_to_frame", "popup"))
                    => (frame = "popup" /\ ~Logged("parent_frame", "popup"))

C10_Witness ==
    /\ op = "select_article_in_popup"
    /\ result.kind = "raise"
    /\ Logged("click", "search_button") /\ Logged("click", "link")
    /\ frame = "popup"

=============================================================================
